---- MODULE Spec2Model ----
(***************************************************************************)
(* Streamlit image generator / editor (app.py).                            *)
(*                                                                         *)
(* One run of the script is modelled as a sequence of steps: the button    *)
(* press with its validation and prompt composition, the text-refinement   *)
(* request, one step per image request, the display/record step and the    *)
(* history section that closes every run.  Text is a sequence of tokens,   *)
(* image bytes are small naturals (0 is the empty byte string).            *)
(***************************************************************************)
EXTENDS Integers, Sequences, FiniteSets, TLC

\* ---------------------------------------------------------------- bounds
MaxParts == 2     \* parts in one response
MaxCount == 2     \* images asked for in one action
MaxSession == 1   \* entries a session may hold when an action starts
MaxHist == 21     \* entries of a history list that is only rendered

\* ------------------------------------------------------- program constants
HIST_CAP == 20
SLIDER_MIN == 1
SLIDER_MAX == 4

\* ------------------------------------------------------------ text helpers
USER_PROMPT == "{USER_PROMPT}"

Whitespace == {" ", "\n", "\n\n"}

RECURSIVE LStrip(_)
LStrip(s) ==
    IF s # <<>> /\ Head(s) \in Whitespace THEN LStrip(Tail(s)) ELSE s

RECURSIVE RStrip(_)
RStrip(s) ==
    IF s # <<>> /\ s[Len(s)] \in Whitespace
    THEN RStrip(SubSeq(s, 1, Len(s) - 1))
    ELSE s

Strip(s) == RStrip(LStrip(s))

RECURSIVE Replace(_, _, _)
Replace(s, old, new) ==
    IF s = <<>> THEN <<>>
    ELSE IF Head(s) = old THEN new \o Replace(Tail(s), old, new)
    ELSE <<Head(s)>> \o Replace(Tail(s), old, new)

\* ---------------------------------------------------------- prompt tables

DeptOrder ==
    << "Marketing", "Design", "General", "DPEX", "HR", "Business" >>

PROMPT_TEMPLATES ==
    "Marketing" :> << "\n", "You are a senior AI prompt engineer creating polished prompt ... Rules: ... User's raw prompt:", "\"", USER_PROMPT, "\"", "\n\n", "Refined marketing image prompt:", "\n" >> @@
    "Design" :> << "\n", "You are a senior AI prompt engineer supporting a creative de ... Rules: ... User's raw prompt:", "\"", USER_PROMPT, "\"", "\n\n", "Refined design image prompt:", "\n" >> @@
    "General" :> << "\n", "You are an expert AI prompt engineer specialized in creating ... Rules: ... User's raw prompt:", "\"", USER_PROMPT, "\"", "\n\n", "Refined general image prompt:", "\n" >> @@
    "DPEX" :> << "\n", "You are a senior AI prompt engineer creating refined prompts ... Rules: ... User's raw prompt:", "\"", USER_PROMPT, "\"", "\n\n", "Refined DPEX image prompt:", "\n" >> @@
    "HR" :> << "\n", "You are a senior AI prompt engineer creating refined prompts ... Rules: ... User's raw prompt:", "\"", USER_PROMPT, "\"", "\n\n", "Refined HR image prompt:", "\n" >> @@
    "Business" :> << "\n", "You are a senior AI prompt engineer creating refined prompts ... Rules: ... User's raw prompt:", "\"", USER_PROMPT, "\"", "\n\n", "Refined business image prompt:", "\n" >>

StyleOrder ==
    << "None", "Smart", "Cinematic", "Creative", "Bokeh", "Macro",
       "Illustration", "3D Render", "Fashion", "Minimalist", "Moody", "Portrait",
       "Stock Photo", "Vibrant", "Pop Art", "Vector", "Watercolor", "Oil Painting",
       "Charcoal", "Line Art", "Anime", "Cartoon", "Pixel Art", "Fantasy Art",
       "Surreal", "Concept Art", "Cyberpunk", "Steampunk", "Neon Glow", "Low Poly",
       "Isometric", "Vintage", "Graffiti" >>

STYLE_DESCRIPTIONS ==
    "None" :> "No special styling keep the image natural, faithful to the users idea" @@
    "Smart" :> "A clean, balanced, and polished look" @@
    "Cinematic" :> "Film-style composition with professional lighting" @@
    "Creative" :> "Playful, imaginative, and experimental" @@
    "Bokeh" :> "Photography style with shallow depth of field" @@
    "Macro" :> "Extreme close-up photography" @@
    "Illustration" :> "Hand-drawn or digitally illustrated style" @@
    "3D Render" :> "Photorealistic or stylized CGI" @@
    "Fashion" :> "High-end editorial photography" @@
    "Minimalist" :> "Simple and uncluttered" @@
    "Moody" :> "Dark, atmospheric, and emotional" @@
    "Portrait" :> "Focus on the subject" @@
    "Stock Photo" :> "Professional, commercial-quality photo" @@
    "Vibrant" :> "Bold, saturated colors" @@
    "Pop Art" :> "Comic-book and pop-art inspired" @@
    "Vector" :> "Flat vector graphics" @@
    "Watercolor" :> "Soft, fluid strokes with delicate blending and washed-out textures" @@
    "Oil Painting" :> "Rich, textured brushstrokes" @@
    "Charcoal" :> "Rough, sketchy textures with dark shading" @@
    "Line Art" :> "Minimal monochrome outlines with clean, bold strokes" @@
    "Anime" :> "Japanese animation style with vibrant colors, clean outlines, expressive features, and stylized proportions" @@
    "Cartoon" :> "Playful, exaggerated features, simplified shapes, bold outlines, and bright colors" @@
    "Pixel Art" :> "Retro digital art style" @@
    "Fantasy Art" :> "Epic fantasy scenes" @@
    "Surreal" :> "Dreamlike, bizarre imagery" @@
    "Concept Art" :> "Imaginative, detailed artwork for games or films" @@
    "Cyberpunk" :> "Futuristic neon city vibes" @@
    "Steampunk" :> "Retro-futuristic style with gears, brass, Victorian aesthetics, and industrial design" @@
    "Neon Glow" :> "Bright neon outlines and glowing highlights" @@
    "Low Poly" :> "Simplified 3D style using flat geometric shapes and polygons" @@
    "Isometric" :> "3D look with isometric perspective" @@
    "Vintage" :> "Old-school, retro tones" @@
    "Graffiti" :> "Urban street art style with bold colors, spray paint textures, and rebellious tone"

Lower ==
    "Marketing" :> "marketing" @@
    "Design" :> "design" @@
    "General" :> "general" @@
    "DPEX" :> "dpex" @@
    "HR" :> "hr" @@
    "Business" :> "business" @@
    "None" :> "none" @@
    "Smart" :> "smart" @@
    "Cinematic" :> "cinematic" @@
    "Creative" :> "creative" @@
    "Bokeh" :> "bokeh" @@
    "Macro" :> "macro" @@
    "Illustration" :> "illustration" @@
    "3D Render" :> "3d render" @@
    "Fashion" :> "fashion" @@
    "Minimalist" :> "minimalist" @@
    "Moody" :> "moody" @@
    "Portrait" :> "portrait" @@
    "Stock Photo" :> "stock photo" @@
    "Vibrant" :> "vibrant" @@
    "Pop Art" :> "pop art" @@
    "Vector" :> "vector" @@
    "Watercolor" :> "watercolor" @@
    "Oil Painting" :> "oil painting" @@
    "Charcoal" :> "charcoal" @@
    "Line Art" :> "line art" @@
    "Anime" :> "anime" @@
    "Cartoon" :> "cartoon" @@
    "Pixel Art" :> "pixel art" @@
    "Fantasy Art" :> "fantasy art" @@
    "Surreal" :> "surreal" @@
    "Concept Art" :> "concept art" @@
    "Cyberpunk" :> "cyberpunk" @@
    "Steampunk" :> "steampunk" @@
    "Neon Glow" :> "neon glow" @@
    "Low Poly" :> "low poly" @@
    "Isometric" :> "isometric" @@
    "Vintage" :> "vintage" @@
    "Graffiti" :> "graffiti"

\* ------------------------------------------------------------- input sets
Min(a, b) == IF a < b THEN a ELSE b

AllDepts == { DeptOrder[k] : k \in 1..Len(DeptOrder) }

AllStyles == { StyleOrder[k] : k \in 1..Len(StyleOrder) }

\* the selections tried where the prompt text is not what is examined
Depts == { "General" }

Styles == { "None" }

RawPrompts == { <<>>, <<" ", "\n">>, <<"a red bicycle">> }

ComposePrompts ==
    { <<>>, <<"a red bicycle">>, <<" ", "a red bicycle", "\n">>,
      <<"draw", USER_PROMPT>> }

Counts == SLIDER_MIN..Min(MaxCount, SLIDER_MAX)

\* base_image: -1 is None (nothing uploaded), 0 the empty byte string
BaseImages == { -1, 0, 1 }

Truthy(bytes) == bytes > 0

\* ------------------------------------------------------- remote responses
BinPart(b) == [hasInline |-> TRUE, data |-> b, hasText |-> FALSE, text |-> <<>>]

\* a text part: its inline data is the empty byte string
TextPart == [hasInline |-> TRUE, data |-> 0, hasText |-> TRUE,
             text |-> <<"sorry, can't do that">>]

BlankPart == [hasInline |-> TRUE, data |-> 0, hasText |-> TRUE, text |-> <<>>]

\* two distinct images
Payloads == { 1, 2 }

ImageParts == { BinPart(b) : b \in Payloads } \cup { TextPart }

PartLists == UNION { [1..n -> ImageParts] : n \in 0..MaxParts }

NoResp == [kind |-> "none", candidates |-> <<>>]

\* an image request raises, returns no candidate at all, or returns one
\* candidate with an ordered list of parts
ImageRaise == [kind |-> "raise", candidates |-> <<>>]

ImageOutcomes ==
    { ImageRaise, [kind |-> "ok", candidates |-> <<>>] }
    \cup { [kind |-> "ok", candidates |-> <<pl>>] : pl \in PartLists }

\* the image model raises or answers with one image
PlainOutcomes == { ImageRaise, [kind |-> "ok", candidates |-> << <<BinPart(1)>> >>] }

NoTextPart == [hasInline |-> TRUE, data |-> 1, hasText |-> FALSE, text |-> <<>>]

TextResp(ht, t, hc, c, r) ==
    [kind |-> "ok", hasText |-> ht, text |-> t,
     hasCandidates |-> hc, candidates |-> c, repr |-> r]

NoTextResp == [kind |-> "none", hasText |-> FALSE, text |-> <<>>,
               hasCandidates |-> FALSE, candidates |-> <<>>, repr |-> "<none>"]

TextRaise == [kind |-> "raise", hasText |-> FALSE, text |-> <<>>,
              hasCandidates |-> FALSE, candidates |-> <<>>, repr |-> "<raise>"]

PlainText ==
    TextResp(TRUE, <<" ", "a refined prompt", "\n">>, TRUE,
             << <<[hasInline |-> FALSE, data |-> 0, hasText |-> TRUE,
                   text |-> <<" ", "a refined prompt", "\n">>]>> >>,
             "<response: text>")

\* the text model raises or answers with usable text
TextOutcomes == { TextRaise, PlainText }

\* every response shape of the text model
AllTextOutcomes ==
    { TextRaise, PlainText,
      TextResp(TRUE, <<>>, TRUE,
               << <<[hasInline |-> FALSE, data |-> 0, hasText |-> TRUE,
                     text |-> <<"first part text">>]>> >>,
               "<response: text only in first part>"),
      TextResp(TRUE, <<>>, TRUE, << <<BlankPart>> >>,
               "<response: first part with empty text>"),
      TextResp(TRUE, <<>>, TRUE, << <<NoTextPart>> >>,
               "<response: first part without text>"),
      TextResp(TRUE, <<>>, TRUE, << <<>> >>,
               "<response: candidate without parts>"),
      TextResp(FALSE, <<>>, TRUE, <<>>, "<response: no candidates>") }

Str(r) == << r.repr >>

\* ---------------------------------------------------------------- helpers
safe_get_enhanced_text(r) ==
    IF r.hasText /\ r.text # <<>> THEN r.text
    ELSE IF r.hasCandidates /\ r.candidates # <<>>
         THEN IF Len(r.candidates[1]) >= 1 /\ r.candidates[1][1].hasText
              THEN r.candidates[1][1].text
              ELSE Str(r)
         ELSE Str(r)

\* a scan that stops at the first image
RECURSIVE ScanPartsFirst(_, _, _)
ScanPartsFirst(parts, out, txt) ==
    IF parts = <<>> THEN [out_bytes |-> out, text_fallback |-> txt]
    ELSE LET p == Head(parts) IN
         IF p.hasInline /\ Truthy(p.data)
         THEN [out_bytes |-> p.data, text_fallback |-> txt]
         ELSE IF p.hasText /\ p.text # <<>>
              THEN ScanPartsFirst(Tail(parts), out, p.text)
              ELSE ScanPartsFirst(Tail(parts), out, txt)

RECURSIVE ScanParts(_, _, _)
ScanParts(parts, out, txt) ==
    IF parts = <<>> THEN [out_bytes |-> out, text_fallback |-> txt]
    ELSE LET p == Head(parts) IN
         IF p.hasInline /\ Truthy(p.data)
         THEN ScanParts(Tail(parts), p.data, txt)
         ELSE IF p.hasText /\ p.text # <<>>
              THEN ScanParts(Tail(parts), out, p.text)
              ELSE ScanParts(Tail(parts), out, txt)

\* run_edit_flow on a returned response: the bytes it returns (0 is None)
\* and the warnings it shows
run_edit_flow(parts) ==
    LET s == ScanParts(parts, 0, <<>>) IN
    IF Truthy(s.out_bytes)
    THEN [ret |-> s.out_bytes, shown |-> <<>>]
    ELSE [ret |-> 0,
          shown |-> IF s.text_fallback # <<>>
                    THEN << [kind |-> "warning",
                             text |-> <<"Gemini did not return an image. Response: ">>
                                      \o s.text_fallback] >>
                    ELSE <<>>]

\* a scan that does not test the data for emptiness
RECURSIVE InlineDataAny(_)
InlineDataAny(parts) ==
    IF parts = <<>> THEN <<>>
    ELSE LET p == Head(parts) IN
         IF p.hasInline
         THEN <<p.data>> \o InlineDataAny(Tail(parts))
         ELSE InlineDataAny(Tail(parts))

RECURSIVE InlineData(_)
InlineData(parts) ==
    IF parts = <<>> THEN <<>>
    ELSE LET p == Head(parts) IN
         IF p.hasInline /\ Truthy(p.data)
         THEN <<p.data>> \o InlineData(Tail(parts))
         ELSE InlineData(Tail(parts))

ComposeGen(d, s, raw) ==
    LET body == Replace(PROMPT_TEMPLATES[d], USER_PROMPT, raw) IN
    IF s # "None"
    THEN body \o <<"\n\n", "Apply the style: ", STYLE_DESCRIPTIONS[s]>>
    ELSE body

\* a composition that appends the clause of every style, "None" included
ComposeEditAlways(d, s, raw) ==
    Replace(PROMPT_TEMPLATES[d], USER_PROMPT, raw)
        \o <<"\n\n", "Apply the style: ", STYLE_DESCRIPTIONS[s]>>

ComposeEdit(d, s, raw) ==
    LET body == Replace(PROMPT_TEMPLATES[d], USER_PROMPT, raw) IN
    IF s # "None"
    THEN body \o <<"\n\n", "Apply the style: ", STYLE_DESCRIPTIONS[s]>>
    ELSE body

\* a test of the prompt that does not strip it
GenInputValidNoStrip(raw) == raw # <<>>

GenInputValid(raw) == Strip(raw) # <<>>

EditInputValid(img, raw) == ~ (~Truthy(img) \/ Strip(raw) = <<>>)

\* the timestamp of the file name is left out
Filename(d, s, idx) == [dept |-> Lower[d], style |-> Lower[s], idx |-> idx]

RECURSIVE GenEntries(_, _, _, _)
GenEntries(raws, d, s, idx) ==
    IF raws = <<>> THEN <<>>
    ELSE << [filename |-> Filename(d, s, idx), content |-> Head(raws)] >>
         \o GenEntries(Tail(raws), d, s, idx + 1)

\* a record loop that appends every version twice
RECURSIVE EditEntriesTwice(_, _, _)
EditEntriesTwice(versions, img, prompt) ==
    IF versions = <<>> THEN <<>>
    ELSE << [original |-> img, edited |-> Head(versions), prompt |-> prompt],
            [original |-> img, edited |-> Head(versions), prompt |-> prompt] >>
         \o EditEntriesTwice(Tail(versions), img, prompt)

RECURSIVE EditEntries(_, _, _)
EditEntries(versions, img, prompt) ==
    IF versions = <<>> THEN <<>>
    ELSE << [original |-> img, edited |-> Head(versions), prompt |-> prompt] >>
         \o EditEntries(Tail(versions), img, prompt)

Reversed(s) == [k \in 1..Len(s) |-> s[Len(s) + 1 - k]]

LastN(s, n) == IF Len(s) <= n THEN s ELSE SubSeq(s, Len(s) - n + 1, Len(s))

\* a slice from the front of the list
RecentOldest(s) == Reversed(SubSeq(s, 1, Min(Len(s), HIST_CAP)))

Recent(s) == Reversed(LastN(s, HIST_CAP))

\* ------------------------------------------------------------------ state
VARIABLES
    generated_images,   \* st.session_state.generated_images
    edited_images,      \* st.session_state.edited_images
    button,             \* the button pressed in this run: "none", "gen", "edit"
    dept, style, raw_prompt, num, base_image,   \* widget values of this run
    refinement_prompt,
    text_resp,          \* outcome of the text-refinement request
    enhanced_prompt,
    i,                  \* loop index of the image requests
    generated_raws, edited_versions,
    resp,               \* outcome of the latest image request
    out_bytes,          \* what run_edit_flow returned for it
    requests,           \* remote requests issued by this run, in order
    received,           \* inline data of the parts this run was sent
    messages,           \* st.warning / st.error / st.info shown by this run
    displayed,          \* images shown by the action of this run
    hist_generated, hist_edited,   \* entries rendered by the history section
    pc

session == <<generated_images, edited_images>>
inputs == <<button, dept, style, raw_prompt, num, base_image>>
locals == <<refinement_prompt, text_resp, enhanced_prompt, i, generated_raws,
            edited_versions, resp, out_bytes>>
page == <<messages, displayed, hist_generated, hist_edited>>
vars == <<session, inputs, locals, page, requests, received, pc>>

Msg(k, t) == [kind |-> k, text |-> t]

TextRequest == [model |-> "TEXT_MODEL", n |-> 0]

ImageRequest(k) == [model |-> "IMAGE_MODEL", n |-> k]

DataOf(parts) == { parts[k].data : k \in { j \in 1..Len(parts) : parts[j].hasInline } }

\* where the script goes on when an image request of the Generate loop
\* raises: the handler is outside the loop
\* a handler inside the loop: the request is sent again
GenRetryPc == "gen_loop"

GenFailurePc == "gen_show"

ClearLocals ==
    /\ text_resp' = NoTextResp
    /\ enhanced_prompt' = <<>>
    /\ i' = 0
    /\ generated_raws' = <<>>
    /\ edited_versions' = <<>>
    /\ resp' = NoResp
    /\ out_bytes' = 0

ClearInputs ==
    /\ button' = "none"
    /\ dept' = "General"
    /\ style' = "None"
    /\ raw_prompt' = <<>>
    /\ num' = 1
    /\ base_image' = -1

\* a script run starts with an empty page
StartRun ==
    /\ pc = "idle"
    /\ requests' = <<>>
    /\ received' = {}
    /\ displayed' = <<>>
    /\ hist_generated' = <<>>
    /\ hist_edited' = <<>>

SessionLen == Len(generated_images) + Len(edited_images)

Init ==
    /\ generated_images = <<>>
    /\ edited_images = <<>>
    /\ button = "none"
    /\ dept = "General"
    /\ style = "None"
    /\ raw_prompt = <<>>
    /\ num = 1
    /\ base_image = -1
    /\ refinement_prompt = <<>>
    /\ text_resp = NoTextResp
    /\ enhanced_prompt = <<>>
    /\ i = 0
    /\ generated_raws = <<>>
    /\ edited_versions = <<>>
    /\ resp = NoResp
    /\ out_bytes = 0
    /\ requests = <<>>
    /\ received = {}
    /\ messages = <<>>
    /\ displayed = <<>>
    /\ hist_generated = <<>>
    /\ hist_edited = <<>>
    /\ pc = "idle"

\* ------------------------------------------------------------ generate tab
\* the Generate button, with selections from D and S, a prompt from R, in a
\* session of at most limit entries
PressGenerate(D, S, R, limit) ==
    \E d \in D, s \in S, raw \in R, n \in Counts :
        /\ StartRun
        /\ SessionLen <= limit
        /\ button' = "gen"
        /\ dept' = d /\ style' = s /\ raw_prompt' = raw /\ num' = n
        /\ base_image' = -1
        /\ ClearLocals
        /\ IF ~GenInputValid(raw)
           THEN /\ messages' = << Msg("warning", <<"Please enter a prompt.">>) >>
                /\ refinement_prompt' = <<>>
                /\ pc' = "history"
           ELSE /\ messages' = <<>>
                /\ refinement_prompt' = ComposeGen(d, s, raw)
                /\ pc' = "gen_refine"
        /\ UNCHANGED session

\* the refinement request, outside any try block
GenRefine(T) ==
    /\ pc = "gen_refine"
    /\ \E t \in T :
        /\ text_resp' = t
        /\ requests' = Append(requests, TextRequest)
        /\ IF t.kind = "raise"
           THEN /\ pc' = "crashed"
                /\ messages' = Append(messages, Msg("exception", <<"RemoteError">>))
                /\ UNCHANGED enhanced_prompt
           ELSE /\ enhanced_prompt' = Strip(safe_get_enhanced_text(t))
                /\ messages' = Append(messages,
                      Msg("info", <<"Enhanced Prompt:", "\n\n">>
                                  \o Strip(safe_get_enhanced_text(t))))
                /\ pc' = "gen_loop"
    /\ UNCHANGED <<session, inputs, refinement_prompt, i, generated_raws,
                   edited_versions, resp, out_bytes, received, displayed,
                   hist_generated, hist_edited>>

\* one pass of the request loop; the try block encloses the whole loop, so
\* an exception ends it
GenRequest(O) ==
    /\ pc = "gen_loop"
    /\ i < num
    /\ \E o \in O :
        /\ resp' = o
        /\ requests' = Append(requests, ImageRequest(i))
        /\ IF o.kind = "raise" \/ o.candidates = <<>>
           THEN /\ messages' = Append(messages,
                      Msg("error", <<"Image generation error: ",
                                     IF o.kind = "raise" THEN "RemoteError"
                                     ELSE "list index out of range">>))
                /\ pc' = GenFailurePc
                /\ UNCHANGED <<i, generated_raws, received>>
           ELSE /\ generated_raws' = generated_raws \o InlineData(o.candidates[1])
                /\ received' = received \cup DataOf(o.candidates[1])
                /\ i' = i + 1
                /\ pc' = IF i + 1 < num THEN "gen_loop" ELSE "gen_show"
                /\ UNCHANGED messages
    /\ UNCHANGED <<session, inputs, refinement_prompt, text_resp,
                   enhanced_prompt, edited_versions, out_bytes, displayed,
                   hist_generated, hist_edited>>

GenShow ==
    /\ pc = "gen_show"
    /\ generated_images' =
          generated_images \o GenEntries(generated_raws, dept, style, 0)
    /\ displayed' = generated_raws
    /\ pc' = "history"
    /\ UNCHANGED <<edited_images, inputs, locals, requests, received,
                   messages, hist_generated, hist_edited>>

\* ---------------------------------------------------------------- edit tab
PressEdit(D, S, R, limit) ==
    \E d \in D, s \in S, raw \in R, n \in Counts, img \in BaseImages :
        /\ StartRun
        /\ SessionLen <= limit
        /\ button' = "edit"
        /\ dept' = d /\ style' = s /\ raw_prompt' = raw /\ num' = n
        /\ base_image' = img
        /\ ClearLocals
        /\ IF ~EditInputValid(img, raw)
           THEN /\ messages' = << Msg("warning",
                      <<"Please upload an image and enter an instruction.">>) >>
                /\ refinement_prompt' = <<>>
                /\ pc' = "history"
           ELSE /\ messages' = <<>>
                /\ refinement_prompt' = ComposeEdit(d, s, raw)
                /\ pc' = "edit_refine"
        /\ UNCHANGED session

EditRefine(T) ==
    /\ pc = "edit_refine"
    /\ \E t \in T :
        /\ text_resp' = t
        /\ requests' = Append(requests, TextRequest)
        /\ IF t.kind = "raise"
           THEN /\ pc' = "crashed"
                /\ messages' = Append(messages, Msg("exception", <<"RemoteError">>))
                /\ UNCHANGED enhanced_prompt
           ELSE /\ enhanced_prompt' = Strip(safe_get_enhanced_text(t))
                /\ messages' = Append(messages,
                      Msg("info", <<"Enhanced Instruction:", "\n\n">>
                                  \o Strip(safe_get_enhanced_text(t))))
                /\ pc' = "edit_loop"
    /\ UNCHANGED <<session, inputs, refinement_prompt, i, generated_raws,
                   edited_versions, resp, out_bytes, received, displayed,
                   hist_generated, hist_edited>>

\* one pass of the loop around run_edit_flow; nothing encloses the call, so
\* an exception ends the script run
EditRequest(O) ==
    /\ pc = "edit_loop"
    /\ i < num
    /\ \E o \in O :
        /\ resp' = o
        /\ requests' = Append(requests, ImageRequest(i))
        /\ IF o.kind = "raise" \/ o.candidates = <<>>
           THEN /\ messages' = Append(messages,
                      Msg("exception", <<IF o.kind = "raise" THEN "RemoteError"
                                         ELSE "list index out of range">>))
                /\ pc' = "crashed"
                /\ UNCHANGED <<i, edited_versions, out_bytes, received>>
           ELSE LET r == run_edit_flow(o.candidates[1]) IN
                /\ out_bytes' = r.ret
                /\ received' = received \cup DataOf(o.candidates[1])
                /\ messages' = messages \o r.shown
                /\ edited_versions' = IF Truthy(r.ret)
                                      THEN Append(edited_versions, r.ret)
                                      ELSE edited_versions
                /\ i' = i + 1
                /\ pc' = IF i + 1 < num THEN "edit_loop" ELSE "edit_show"
    /\ UNCHANGED <<session, inputs, refinement_prompt, text_resp,
                   enhanced_prompt, generated_raws, displayed, hist_generated,
                   hist_edited>>

EditShow ==
    /\ pc = "edit_show"
    /\ edited_images' =
          edited_images \o EditEntries(edited_versions, base_image, enhanced_prompt)
    /\ displayed' = edited_versions
    /\ pc' = "history"
    /\ UNCHANGED <<generated_images, inputs, locals, requests, received,
                   messages, hist_generated, hist_edited>>

\* ------------------------------------------------------------------ history
\* a rerun of the script with no button pressed
Rerun ==
    /\ StartRun
    /\ ClearInputs
    /\ ClearLocals
    /\ refinement_prompt' = <<>>
    /\ messages' = <<>>
    /\ pc' = "history"
    /\ UNCHANGED session

\* the history section closes every script run that was not aborted; the
\* script's variables are gone once the run is over
History ==
    /\ pc = "history"
    /\ hist_generated' = IF generated_images # <<>> THEN Recent(generated_images)
                         ELSE <<>>
    /\ hist_edited' = IF edited_images # <<>> THEN Recent(edited_images) ELSE <<>>
    /\ ClearInputs
    /\ ClearLocals
    /\ refinement_prompt' = <<>>
    /\ pc' = "idle"
    /\ UNCHANGED <<session, requests, received, messages, displayed>>

\* an uncaught exception ends the script run where it was raised: the page
\* keeps what was shown, the history section is not reached
Abort ==
    /\ pc = "crashed"
    /\ ClearInputs
    /\ ClearLocals
    /\ refinement_prompt' = <<>>
    /\ pc' = "idle"
    /\ UNCHANGED <<session, requests, received, page>>

Next ==
    \/ PressGenerate(Depts, Styles, RawPrompts, MaxSession)
    \/ GenRefine(TextOutcomes)
    \/ GenRequest(ImageOutcomes)
    \/ GenShow
    \/ PressEdit(Depts, Styles, RawPrompts, MaxSession)
    \/ EditRefine(TextOutcomes)
    \/ EditRequest(ImageOutcomes)
    \/ EditShow
    \/ Rerun
    \/ History
    \/ Abort

Spec == Init /\ [][Next]_vars

\* ------------------------------------------- every text response shape
\* a fresh session in which the text model answers in every shape and the
\* image model raises or returns one image
NextText ==
    \/ PressGenerate(Depts, Styles, RawPrompts, 0)
    \/ GenRefine(AllTextOutcomes)
    \/ GenRequest(PlainOutcomes)
    \/ GenShow
    \/ PressEdit(Depts, Styles, RawPrompts, 0)
    \/ EditRefine(AllTextOutcomes)
    \/ EditRequest(PlainOutcomes)
    \/ EditShow
    \/ Rerun
    \/ History
    \/ Abort

SpecText == Init /\ [][NextText]_vars

\* ------------------------------------------- every department and style
NextCompose ==
    \/ PressGenerate(AllDepts, AllStyles, ComposePrompts, 0)
    \/ GenRefine(TextOutcomes)
    \/ GenRequest(PlainOutcomes)
    \/ GenShow
    \/ PressEdit(AllDepts, AllStyles, ComposePrompts, 0)
    \/ EditRefine(TextOutcomes)
    \/ EditRequest(PlainOutcomes)
    \/ EditShow
    \/ Rerun
    \/ History
    \/ Abort

SpecCompose == Init /\ [][NextCompose]_vars

\* ------------------------------------------------- a session with history
\* the lists after n Generate and m Edit actions of one image each
PastGenerated(n) ==
    [k \in 1..n |-> [filename |-> Filename("General", "None", 0), content |-> k]]

PastEdited(m) ==
    [k \in 1..m |-> [original |-> 1, edited |-> k, prompt |-> <<"a refined prompt">>]]

InitHist ==
    /\ \E n \in 0..MaxHist : generated_images = PastGenerated(n)
    /\ \E m \in 0..MaxHist : edited_images = PastEdited(m)
    /\ button = "none"
    /\ dept = "General"
    /\ style = "None"
    /\ raw_prompt = <<>>
    /\ num = 1
    /\ base_image = -1
    /\ refinement_prompt = <<>>
    /\ text_resp = NoTextResp
    /\ enhanced_prompt = <<>>
    /\ i = 0
    /\ generated_raws = <<>>
    /\ edited_versions = <<>>
    /\ resp = NoResp
    /\ out_bytes = 0
    /\ requests = <<>>
    /\ received = {}
    /\ messages = <<>>
    /\ displayed = <<>>
    /\ hist_generated = <<>>
    /\ hist_edited = <<>>
    /\ pc = "idle"

NextHist == Rerun \/ History

SpecHist == InitHist /\ [][NextHist]_vars

\* ======================================================== properties
\* the parts of the response of the latest image request, when it returned
\* a candidate
Returned(r) == r.kind = "ok" /\ r.candidates # <<>>

PartsOf(r) == r.candidates[1]

\* positions of the parts with non-empty inline data
ImageAt(parts) == { k \in 1..Len(parts) : parts[k].hasInline /\ parts[k].data # 0 }

Lowest(S) == CHOOSE k \in S : \A j \in S : k <= j

Highest(S) == CHOOSE k \in S : \A j \in S : k >= j

\* a step that is an image request of the Generate loop / of the Edit loop
GenRequestStep == pc = "gen_loop" /\ requests' # requests

EditRequestStep == pc = "edit_loop" /\ requests' # requests

\* what a step appended to a list
Added(old, new) == SubSeq(new, Len(old) + 1, Len(new))

\* the image data at the positions S of parts, in order
RECURSIVE DataAt(_, _, _)
DataAt(parts, S, k) ==
    IF k > Len(parts) THEN <<>>
    ELSE (IF k \in S THEN <<parts[k].data>> ELSE <<>>) \o DataAt(parts, S, k + 1)

\* ---- C1 ----------------------------------------------------------------
C1_FirstMatchStep ==
    /\ (EditRequestStep /\ Returned(resp')) =>
          out_bytes' = IF ImageAt(PartsOf(resp')) = {} THEN 0
                       ELSE PartsOf(resp')[Lowest(ImageAt(PartsOf(resp')))].data
    /\ (GenRequestStep /\ Returned(resp')) =>
          Added(generated_raws, generated_raws') =
              IF ImageAt(PartsOf(resp')) = {} THEN <<>>
              ELSE << PartsOf(resp')[Lowest(ImageAt(PartsOf(resp')))].data >>

C1_PartScanStep ==
    /\ (EditRequestStep /\ Returned(resp')) =>
          /\ out_bytes' = IF ImageAt(PartsOf(resp')) = {} THEN 0
                          ELSE PartsOf(resp')[Highest(ImageAt(PartsOf(resp')))].data
          /\ Added(edited_versions, edited_versions') =
                IF ImageAt(PartsOf(resp')) = {} THEN <<>> ELSE << out_bytes' >>
    /\ (GenRequestStep /\ Returned(resp')) =>
          /\ Added(generated_raws, generated_raws') =
                DataAt(PartsOf(resp'), ImageAt(PartsOf(resp')), 1)
          /\ SubSeq(generated_raws', 1, Len(generated_raws)) = generated_raws

C2_NoEscape == pc # "crashed"

\* ---- C3 ----------------------------------------------------------------
ImageFailed == resp.kind = "raise" \/ (resp.kind = "ok" /\ resp.candidates = <<>>)

ActionOver == button # "none" /\ pc \in {"history", "crashed"}

Produced == IF button = "gen" THEN generated_raws ELSE edited_versions

Recorded ==
    IF button = "gen"
    THEN [k \in 1..Len(generated_images) |-> generated_images[k].content]
    ELSE [k \in 1..Len(edited_images) |-> edited_images[k].edited]

IsSuffix(t, s) ==
    /\ Len(t) <= Len(s)
    /\ SubSeq(s, Len(s) - Len(t) + 1, Len(s)) = t

\* C3: when request k > 1 fails after the earlier requests each produced
\* an image, the action ends with those images displayed and recorded in
\* the session history.
C3_PartialSuccess ==
    (ActionOver /\ ImageFailed /\ i >= 1 /\ Len(Produced) >= i) =>
        /\ displayed = Produced
        /\ IsSuffix(Produced, Recorded)

\* ---- C4 ----------------------------------------------------------------
Warnings(m) == { k \in 1..Len(m) : m[k].kind = "warning" }

C4_ExtractionWarnedStep ==
    ((GenRequestStep \/ EditRequestStep)
         /\ Returned(resp') /\ ImageAt(PartsOf(resp')) = {}) =>
        Cardinality(Warnings(messages')) > Cardinality(Warnings(messages))

\* C4: every image request that returns a response without any non-empty
\* inline data makes its action show one more warning.
C4_ExtractionWarned == [][C4_ExtractionWarnedStep]_vars

\* ---- C5 ----------------------------------------------------------------
WhitespaceOnly(t) == \A k \in 1..Len(t) : t[k] \in Whitespace

InvalidPressed ==
    \/ button = "gen" /\ WhitespaceOnly(raw_prompt)
    \/ button = "edit" /\ (base_image \in {-1, 0} \/ WhitespaceOnly(raw_prompt))

C5_OnlyWarning ==
    InvalidPressed =>
        /\ requests = <<>>
        /\ Len(messages) = 1 /\ messages[1].kind = "warning"
        /\ displayed = <<>>

C5_SessionKept == (InvalidPressed \/ InvalidPressed') => UNCHANGED session

\* C5: a press of Generate with an empty or whitespace-only prompt, or of
\* Edit with no image or such a prompt, shows one warning and nothing else,
\* sends no request to either model and leaves both history lists as they
\* were.
C5_InvalidInputSendsNothing == []C5_OnlyWarning /\ [][C5_SessionKept]_vars

\* Edit pressed with a prompt but no image, in a session that has entries
C5_Witness ==
    /\ pc = "history"
    /\ button = "edit"
    /\ base_image = -1
    /\ ~WhitespaceOnly(raw_prompt)
    /\ SessionLen >= 1
    /\ requests = <<>>

\* ---- C6 ----------------------------------------------------------------
IsPrefix(s, t) == Len(s) <= Len(t) /\ SubSeq(t, 1, Len(s)) = s

C6_NonEmpty ==
    /\ \A k \in 1..Len(generated_images) : generated_images[k].content # 0
    /\ \A k \in 1..Len(edited_images) : edited_images[k].edited # 0

C6_AppendOnly ==
    /\ IsPrefix(generated_images, generated_images')
    /\ IsPrefix(edited_images, edited_images')
    /\ \A k \in (Len(generated_images) + 1)..Len(generated_images') :
          generated_images'[k].content \in received \ {0}
    /\ \A k \in (Len(edited_images) + 1)..Len(edited_images') :
          edited_images'[k].edited \in received \ {0}

\* C6: no step removes or changes a recorded entry, every appended entry
\* holds non-empty image bytes that a response part of the running action
\* carried, and so every recorded entry is a non-empty image.
C6_AppendOnlyHistory == []C6_NonEmpty /\ [][C6_AppendOnly]_vars

\* a Generate action appended its images behind the entries of an earlier
\* action
C6_Witness ==
    /\ pc = "history"
    /\ button = "gen"
    /\ displayed # <<>>
    /\ Len(generated_images) > Len(displayed)

\* ---- C8 ----------------------------------------------------------------
Accepted == button # "none" /\ ~InvalidPressed

Failed == text_resp.kind = "raise" \/ ImageFailed

Running == pc # "idle"

\* the steps an accepted action has left at most
Rank ==
    CASE pc \in {"gen_refine", "edit_refine"} -> num + 4
      [] pc \in {"gen_loop", "edit_loop"} -> num - i + 3
      [] pc \in {"gen_show", "edit_show"} -> 2
      [] pc = "history" -> 1
      [] OTHER -> 0

C8_InOrder ==
    Accepted =>
        /\ Len(requests) <= 1 + num
        /\ \A k \in 1..Len(requests) :
              requests[k] = IF k = 1 THEN TextRequest ELSE ImageRequest(k - 2)
        /\ (pc \in {"gen_show", "edit_show", "history"} /\ ~Failed) =>
              Len(requests) = 1 + num
        /\ Running => ENABLED Next

C8_NoRetryStep ==
    /\ Failed => Len(requests') <= Len(requests)
    /\ Running => (pc' = "idle" \/ (Running' /\ Rank' < Rank))

\* C8: an accepted action sends one text request and then image requests
\* numbered 0, 1, ... each at most once; all of them when nothing fails,
\* none after a failure; each of its steps brings it nearer to its end, and
\* it always has a next step until then.
C8_BoundedRequests == []C8_InOrder /\ [][C8_NoRetryStep]_vars

\* a Generate action for two images whose second request failed
C8_Witness ==
    /\ pc = "gen_show"
    /\ num = 2
    /\ ImageFailed
    /\ requests = <<TextRequest, ImageRequest(0), ImageRequest(1)>>

\* ---- C7 ----------------------------------------------------------------
\* view shows the newest min(HIST_CAP, length) entries of list, newest first
NewestFirst(view, list) ==
    /\ Len(view) = IF Len(list) < HIST_CAP THEN Len(list) ELSE HIST_CAP
    /\ \A k \in 1..Len(view) : view[k] = list[Len(list) + 1 - k]

C7_RenderStep ==
    pc = "history" =>
        /\ NewestFirst(hist_generated', generated_images')
        /\ NewestFirst(hist_edited', edited_images')
        /\ UNCHANGED session

\* C7: the history section renders, of each list, at most 20 entries, namely
\* the min(20, length) appended last, the last appended first, and leaves
\* the lists as they are.
C7_RecentNewestFirst == [][C7_RenderStep]_vars

\* a list of more than 20 entries rendered: 20 shown, the oldest left out
C7_Witness ==
    /\ pc = "idle"
    /\ Len(generated_images) > HIST_CAP
    /\ Len(hist_generated) = HIST_CAP
    /\ hist_generated[1] = generated_images[Len(generated_images)]
    /\ hist_generated[HIST_CAP] # generated_images[1]

\* ---- C9 ----------------------------------------------------------------
FirstPartText(r) ==
    IF r.hasCandidates /\ r.candidates # <<>> /\ Len(r.candidates[1]) >= 1
       /\ r.candidates[1][1].hasText
    THEN r.candidates[1][1].text
    ELSE <<>>

\* the first non-empty text of the response, else its string representation
UsableText(r) ==
    IF r.hasText /\ r.text # <<>> THEN r.text
    ELSE IF FirstPartText(r) # <<>> THEN FirstPartText(r)
    ELSE Str(r)

\* C9: whatever the shape of the text response, the enhanced prompt is the
\* stripped first non-empty text of the response, or its stripped string
\* representation when it has no non-empty text.
C9_BestEffort ==
    text_resp.kind = "ok" => enhanced_prompt = Strip(UsableText(text_resp))

\* ---- C10 ---------------------------------------------------------------
PlaceholderAt(t) == CHOOSE k \in 1..Len(t) : t[k] = USER_PROMPT

\* the template of department d with raw in the place of its placeholder
Substituted(d, raw) ==
    LET t == PROMPT_TEMPLATES[d]
        k == PlaceholderAt(t)
    IN  SubSeq(t, 1, k - 1) \o raw \o SubSeq(t, k + 1, Len(t))

\* C10: in both actions the composed prompt is the department's template
\* with the instruction substituted, and nothing more for style "None"; for
\* any other style a paragraph break and a clause ending with the style's
\* description follow it.
C10_StyleClause ==
    Accepted =>
        LET body == Substituted(dept, raw_prompt) IN
        IF style = "None"
        THEN refinement_prompt = body
        ELSE /\ IsPrefix(body, refinement_prompt)
             /\ Len(refinement_prompt) = Len(body) + 3
             /\ refinement_prompt[Len(body) + 1] = "\n\n"
             /\ refinement_prompt[Len(refinement_prompt)] = STYLE_DESCRIPTIONS[style]

\* an Edit action composed a prompt for department HR in style Cyberpunk
C10_Witness ==
    /\ pc = "edit_refine"
    /\ dept = "HR"
    /\ style = "Cyberpunk"
    /\ raw_prompt = <<" ", "a red bicycle", "\n">>
    /\ refinement_prompt[Len(refinement_prompt)] = STYLE_DESCRIPTIONS["Cyberpunk"]

\* ---- C11 ---------------------------------------------------------------
GrownBy(old, new) == Len(new) - Len(old)

C11_AtMostCountStep ==
    /\ GrownBy(generated_images, generated_images') <=
          (IF pc = "gen_show" THEN num ELSE 0)
    /\ GrownBy(edited_images, edited_images') <=
          (IF pc = "edit_show" THEN num ELSE 0)

C11_PerPartStep ==
    /\ GrownBy(generated_images, generated_images') <=
          (IF pc = "gen_show" THEN num * MaxParts ELSE 0)
    /\ pc = "gen_show" =>
          GrownBy(generated_images, generated_images') = Len(generated_raws)
    /\ GrownBy(edited_images, edited_images') <=
          (IF pc = "edit_show" THEN num ELSE 0)

C11_RawsPerPart ==
    /\ pc \in {"gen_loop", "gen_show"} => Len(generated_raws) <= i * MaxParts
    /\ pc \in {"edit_loop", "edit_show"} => Len(edited_versions) <= i
    /\ i <= num

====
